---------------------------- MODULE Spec2Model ----------------------------
(***************************************************************************)
(* EnergyGuard AI (src/energyguard_ai.py).                                 *)
(*                                                                         *)
(* Numbers.  The program computes with Python floats.  The model takes the *)
(* values typed at the numeric prompts to be integers and carries every    *)
(* quotient as an exact fraction <<n, d>> with d > 0, so that a threshold  *)
(* comparison such as ratio >= 1.35 is the comparison of the exact         *)
(* quotient with 135/100.  efficiency_score yields a number of tenths and  *)
(* the ":.2f" format a number of hundredths.  Where the exact value lies   *)
(* halfway between two results the model rounds half to even.              *)
(*                                                                         *)
(* Text.  A str is a sequence of one-character strings, so that strip(),   *)
(* capitalize() and lower() are computed character by character.           *)
(*                                                                         *)
(* Frames.  locals is the frame of the running function: a function from   *)
(* the names assigned so far to their values.                              *)
(***************************************************************************)
EXTENDS Integers, Sequences, FiniteSets, TLC

VARIABLES pc, records, locals, error, cycle

vars == <<pc, records, locals, error, cycle>>

---------------------------------------------------------------------------
(* Bounds of the model                                                     *)

MaxUsage == 6
MaxPad == 1
MaxCycles == 3
MaxHistory == 2
MaxRatioNum == 300

---------------------------------------------------------------------------
(* Text                                                                    *)

UpperChars ==
  <<"A","B","C","D","E","F","G","H","I","J","K","L","M",
    "N","O","P","Q","R","S","T","U","V","W","X","Y","Z">>

LowerChars ==
  <<"a","b","c","d","e","f","g","h","i","j","k","l","m",
    "n","o","p","q","r","s","t","u","v","w","x","y","z">>

IsUpper(c) == \E i \in 1..Len(UpperChars) : UpperChars[i] = c

IsLower(c) == \E i \in 1..Len(LowerChars) : LowerChars[i] = c

IsSpace(c) == c \in {" ", "\t"}

UpperChar(c) ==
  IF IsLower(c)
    THEN UpperChars[CHOOSE i \in 1..Len(LowerChars) : LowerChars[i] = c]
    ELSE c

LowerChar(c) ==
  IF IsUpper(c)
    THEN LowerChars[CHOOSE i \in 1..Len(UpperChars) : UpperChars[i] = c]
    ELSE c

\* str.lower()
lower(s) == [i \in 1..Len(s) |-> LowerChar(s[i])]

\* str.upper(); used only to build what a user may type
upper(s) == [i \in 1..Len(s) |-> UpperChar(s[i])]

\* str.strip()
strip(s) ==
  LET keep == {i \in 1..Len(s) : ~IsSpace(s[i])}
  IN  IF keep = {} THEN <<>>
      ELSE SubSeq(s, CHOOSE i \in keep : \A j \in keep : i <= j,
                     CHOOSE i \in keep : \A j \in keep : i >= j)

\* str.title(): every letter that follows a non-letter is upper-cased
title(s) ==
  [i \in 1..Len(s) |->
     IF i = 1 \/ ~(IsUpper(s[i-1]) \/ IsLower(s[i-1]))
       THEN UpperChar(s[i]) ELSE LowerChar(s[i])]

\* str.capitalize(): first character upper-cased, all others lower-cased
capitalize(s) ==
  [i \in 1..Len(s) |-> IF i = 1 THEN UpperChar(s[i]) ELSE LowerChar(s[i])]

FACTORY == <<"F","a","c","t","o","r","y">>

POWER_PLANT == <<"P","o","w","e","r"," ","P","l","a","n","t">>

HOME == <<"H","o","m","e">>

DAY == <<"D","a","y">>

NIGHT == <<"N","i","g","h","t">>

YES == <<"y","e","s">>

NO == <<"n","o">>

---------------------------------------------------------------------------
(* Exact fractions <<n, d>>, d > 0                                         *)

Abs(x) == IF x < 0 THEN -x ELSE x

\* a / b for b # 0
Div(a, b) == IF b > 0 THEN <<a, b>> ELSE <<-a, -b>>

\* p >= q
Geq(p, q) == p[1] * q[2] >= q[1] * p[2]

\* p > q
Gt(p, q) == p[1] * q[2] > q[1] * p[2]

\* the integer nearest to a / b (a >= 0, b > 0), halves to the even one
RoundHalfEven(a, b) ==
  LET q == a \div b
      r == a % b
  IN  IF 2 * r < b THEN q
      ELSE IF 2 * r > b THEN q + 1
      ELSE IF q % 2 = 0 THEN q ELSE q + 1

\* f"{ratio:.2f}", as a number of hundredths
Format2f(ratio) ==
  IF ratio[1] >= 0 THEN RoundHalfEven(ratio[1] * 100, ratio[2])
  ELSE -RoundHalfEven((-ratio[1]) * 100, ratio[2])

---------------------------------------------------------------------------
(* EnergyRecord, EnergyHistory                                             *)

EnergyRecord(usage, expected_avg, sector, time, sunlight, temperature) ==
  [usage |-> usage, expected_avg |-> expected_avg, sector |-> sector,
   time |-> time, sunlight |-> sunlight, temperature |-> temperature]

\* Python's None, for a result that is otherwise a fraction
None == <<>>

\* EnergyHistory.add
add(recs, record) == Append(recs, record)

RECURSIVE SumUsage(_)
SumUsage(recs) ==
  IF recs = <<>> THEN 0 ELSE Head(recs).usage + SumUsage(Tail(recs))

\* EnergyHistory.trend_average
trend_average(recs) ==
  IF Len(recs) < 2 THEN None ELSE Div(SumUsage(recs), Len(recs))

---------------------------------------------------------------------------
(* EnergyAnalytics                                                         *)

CRITICAL_RATIO == <<135, 100>>

WARNING_RATIO == <<115, 100>>

\* the factor 1.25 of anomaly_detected
SPIKE_FACTOR == <<125, 100>>

\* EnergyAnalytics.usage_ratio, where expected_avg # 0
usage_ratio(record) == Div(record.usage, record.expected_avg)

\* line 43: history.records[-1].usage
last_usage(recs) == recs[Len(recs)].usage

anomaly_detected_zero_last(record, recs) ==
  LET last == IF recs = <<>> THEN 0 ELSE last_usage(recs)
  IN  Gt(<<record.usage, 1>>, <<last * SPIKE_FACTOR[1], SPIKE_FACTOR[2]>>)

anomaly_detected_geq(record, recs) ==
  IF recs = <<>> THEN FALSE
  ELSE LET last == last_usage(recs)
       IN  Geq(<<record.usage, 1>>, <<last * SPIKE_FACTOR[1], SPIKE_FACTOR[2]>>)

\* EnergyAnalytics.anomaly_detected
anomaly_detected(record, recs) ==
  IF recs = <<>> THEN FALSE
  ELSE LET last == last_usage(recs)
       IN  Gt(<<record.usage, 1>>, <<last * SPIKE_FACTOR[1], SPIKE_FACTOR[2]>>)

alert_level_strict(ratio, anomaly) ==
  IF Gt(ratio, CRITICAL_RATIO) \/ anomaly THEN "CRITICAL"
  ELSE IF Geq(ratio, WARNING_RATIO) THEN "WARNING"
  ELSE "NORMAL"

\* EnergyAnalytics.alert_level
alert_level(ratio, anomaly) ==
  IF Geq(ratio, CRITICAL_RATIO) \/ anomaly THEN "CRITICAL"
  ELSE IF Geq(ratio, WARNING_RATIO) THEN "WARNING"
  ELSE "NORMAL"

efficiency_score_no_floor(ratio) ==
  LET n == ratio[1]
      d == ratio[2]
      score == 1000 * d - Abs(n - d) * 750
      low == IF score < 1000 * d THEN score ELSE 1000 * d
  IN  IF low >= 0 THEN RoundHalfEven(low, d) ELSE -RoundHalfEven(-low, d)

\* EnergyAnalytics.efficiency_score, as a number of tenths
efficiency_score(ratio) ==
  LET n == ratio[1]
      d == ratio[2]
      \* ten times line 56's score, times d
      score == 1000 * d - Abs(n - d) * 750
      low == IF score < 1000 * d THEN score ELSE 1000 * d
      clamped == IF low > 0 THEN low ELSE 0
  IN  RoundHalfEven(clamped, d)

---------------------------------------------------------------------------
(* KeenAIBrain                                                             *)

\* a line of the diagnosis; arg is the formatted number of the line, if any
Reason(text, arg) == [text |-> text, arg |-> arg]

RatioLine(ratio) == Reason("Usage is {ratio:.2f}x expected level", Format2f(ratio))

SpikeLine == Reason("Sudden energy spike detected", 0)

TemperatureLine == Reason("High temperature -> increased cooling demand", 0)

SunlightLine == Reason("Available sunlight not optimally utilized", 0)

FactoryLine == Reason("Industrial processes generate recoverable waste", 0)

PowerPlantLine == Reason("Grid-level load balancing opportunity detected", 0)

ReduceLoad == <<"IMMEDIATE", "Reduce non-essential electrical load">>

DaylightMirroring == <<"IMMEDIATE", "Activate Smart Daylight-Mirroring System">>

WasteRecovery == <<"IMMEDIATE", "Enable ORC Waste Energy Recovery Line">>

GeothermalShift == <<"HIGH", "Shift base load to geothermal supply">>

OptimizeSchedule == <<"MEDIUM", "Optimize operational schedule">>

DaylightLighting == <<"MEDIUM", "Increase daylight-based lighting usage">>

NoAction == <<"LOW", "No corrective action required">>

When(cond, item) == IF cond THEN <<item>> ELSE <<>>

Min(a, b) == IF a < b THEN a ELSE b

decide_reasons_elif(record, ratio, anomaly) ==
  <<RatioLine(ratio)>>
    \o (IF anomaly THEN <<SpikeLine>>
        ELSE When(record.temperature > 30, TemperatureLine))
    \o When(record.sunlight /\ record.time = DAY, SunlightLine)
    \o When(record.sector = FACTORY, FactoryLine)
    \o When(record.sector = POWER_PLANT, PowerPlantLine)

\* KeenAIBrain.decide: the reasons list
decide_reasons(record, ratio, anomaly) ==
  <<RatioLine(ratio)>>
    \o When(anomaly, SpikeLine)
    \o When(record.temperature > 30, TemperatureLine)
    \o When(record.sunlight /\ record.time = DAY, SunlightLine)
    \o When(record.sector = FACTORY, FactoryLine)
    \o When(record.sector = POWER_PLANT, PowerPlantLine)

decide_actions_geothermal_first(record, alert) ==
  IF alert = "CRITICAL"
    THEN <<ReduceLoad, GeothermalShift>>
           \o When(record.sunlight, DaylightMirroring)
           \o When(record.sector \in {FACTORY, POWER_PLANT}, WasteRecovery)
  ELSE IF alert = "WARNING"
    THEN <<OptimizeSchedule>> \o When(record.sunlight, DaylightLighting)
  ELSE <<NoAction>>

\* KeenAIBrain.decide: the actions list
decide_actions(record, alert) ==
  IF alert = "CRITICAL"
    THEN <<ReduceLoad>>
           \o When(record.sunlight, DaylightMirroring)
           \o When(record.sector \in {FACTORY, POWER_PLANT}, WasteRecovery)
           \o <<GeothermalShift>>
  ELSE IF alert = "WARNING"
    THEN <<OptimizeSchedule>> \o When(record.sunlight, DaylightLighting)
  ELSE <<NoAction>>

decide_confidence_base_if_fired(record) ==
  LET c == (IF record.temperature > 30 THEN 15 ELSE 0)
         + (IF record.sunlight /\ record.time = DAY THEN 20 ELSE 0)
         + (IF record.sector = FACTORY THEN 20 ELSE 0)
         + (IF record.sector = POWER_PLANT THEN 20 ELSE 0)
  IN  IF c > 0 THEN Min(100, c + 30) ELSE 0

\* KeenAIBrain.decide: the confidence
decide_confidence(record) ==
  LET c == (IF record.temperature > 30 THEN 15 ELSE 0)
         + (IF record.sunlight /\ record.time = DAY THEN 20 ELSE 0)
         + (IF record.sector = FACTORY THEN 20 ELSE 0)
         + (IF record.sector = POWER_PLANT THEN 20 ELSE 0)
  IN  Min(100, c + 30)

\* KeenAIBrain.decide
decide(record, ratio, anomaly, alert) ==
  <<decide_reasons(record, ratio, anomaly),
    decide_actions(record, alert),
    decide_confidence(record)>>

---------------------------------------------------------------------------
(* Frames                                                                  *)

NoLocals == <<>>

Has(name) == name \in DOMAIN locals

\* locals after the assignment name = value
Assign(name, value) == (name :> value) @@ locals

\* an uncaught exception ends the program
Raise(kind) ==
  /\ pc' = "raised"
  /\ error' = kind
  /\ UNCHANGED <<records, locals, cycle>>

---------------------------------------------------------------------------
(* What the user may type                                                  *)

Spaces(n) == [i \in 1..n |-> " "]

\* a line typed at a numeric prompt: a number, or text float() rejects
NotANumber == [num |-> FALSE, val |-> 0]

Number(v) == [num |-> TRUE, val |-> v]

UsageLines == {Number(v) : v \in -1..MaxUsage} \cup {NotANumber}

ExpectedLines == {Number(v) : v \in {-4, 0, 4}} \cup {NotANumber}

TemperatureLines == {Number(v) : v \in {30, 31}} \cup {NotANumber}

SectorWords == {<<>>, HOME, FACTORY, POWER_PLANT}

SectorLines ==
  {Spaces(l) \o w \o Spaces(t) :
     w \in SectorWords \cup {lower(x) : x \in SectorWords}
                       \cup {upper(x) : x \in SectorWords},
     l \in 0..MaxPad, t \in 0..MaxPad}

TimeLines == {DAY, lower(DAY), <<" ">> \o upper(DAY), NIGHT, <<>>}

SunlightLines == {YES, upper(YES), <<" ">> \o YES, NO, <<>>}

---------------------------------------------------------------------------
(* main                                                                    *)

\* lines 131-135
Init ==
  /\ pc = "usage"
  /\ records = <<>>
  /\ locals = NoLocals
  /\ error = "none"
  /\ cycle = 1

\* line 137
ReadUsage ==
  /\ pc = "usage"
  /\ \E line \in UsageLines :
       IF line.num
         THEN /\ locals' = Assign("usage", line.val)
              /\ pc' = "expected"
              /\ UNCHANGED <<records, error, cycle>>
         ELSE Raise("ValueError")

\* line 138
ReadExpected ==
  /\ pc = "expected"
  /\ \E line \in ExpectedLines :
       IF line.num
         THEN /\ locals' = Assign("expected", line.val)
              /\ pc' = "sector"
              /\ UNCHANGED <<records, error, cycle>>
         ELSE Raise("ValueError")

ReadSectorTitle ==
  /\ pc = "sector"
  /\ \E line \in SectorLines :
       locals' = ("sector" :> title(strip(line)))
                   @@ ("sector_typed" :> line) @@ locals
  /\ pc' = "time"
  /\ UNCHANGED <<records, error, cycle>>

\* line 139; sector_typed keeps what input() returned
ReadSector ==
  /\ pc = "sector"
  /\ \E line \in SectorLines :
       locals' = ("sector" :> capitalize(strip(line)))
                   @@ ("sector_typed" :> line) @@ locals
  /\ pc' = "time"
  /\ UNCHANGED <<records, error, cycle>>

\* line 140
ReadTime ==
  /\ pc = "time"
  /\ \E line \in TimeLines :
       locals' = Assign("time", capitalize(strip(line)))
  /\ pc' = "sunlight"
  /\ UNCHANGED <<records, error, cycle>>

\* line 141
ReadSunlight ==
  /\ pc = "sunlight"
  /\ \E line \in SunlightLines :
       locals' = Assign("sunlight", lower(line) = YES)
  /\ pc' = "temperature"
  /\ UNCHANGED <<records, error, cycle>>

\* line 142
ReadTemperature ==
  /\ pc = "temperature"
  /\ \E line \in TemperatureLines :
       IF line.num
         THEN /\ locals' = Assign("temperature", line.val)
              /\ pc' = "record"
              /\ UNCHANGED <<records, error, cycle>>
         ELSE Raise("ValueError")

\* lines 144-146
MakeRecord ==
  /\ pc = "record"
  /\ locals' = Assign("record",
                 EnergyRecord(locals.usage, locals.expected, locals.sector,
                              locals.time, locals.sunlight, locals.temperature))
  /\ pc' = "anomaly"
  /\ UNCHANGED <<records, error, cycle>>

DetectAnomalyAfterAdd ==
  /\ pc = "anomaly"
  /\ LET recs == add(records, locals.record)
     IN  locals' = ("anomaly" :> anomaly_detected(locals.record, recs))
                     @@ ("last" :> last_usage(recs)) @@ locals
  /\ pc' = "add"
  /\ UNCHANGED <<records, error, cycle>>

\* line 148; last keeps the callee's local of line 43, when it was assigned
DetectAnomaly ==
  /\ pc = "anomaly"
  /\ locals' = ("anomaly" :> anomaly_detected(locals.record, records))
                 @@ (IF records = <<>> THEN NoLocals
                     ELSE "last" :> last_usage(records))
                 @@ locals
  /\ pc' = "add"
  /\ UNCHANGED <<records, error, cycle>>

\* line 149
AddRecord ==
  /\ pc = "add"
  /\ records' = add(records, locals.record)
  /\ pc' = "ratio"
  /\ UNCHANGED <<locals, error, cycle>>

\* line 151: dividing by 0.0 raises ZeroDivisionError, which main lets through
ComputeRatio ==
  /\ pc = "ratio"
  /\ IF locals.record.expected_avg = 0
       THEN Raise("ZeroDivisionError")
       ELSE /\ locals' = Assign("ratio", usage_ratio(locals.record))
            /\ pc' = "alert"
            /\ UNCHANGED <<records, error, cycle>>

\* line 152
ComputeAlert ==
  /\ pc = "alert"
  /\ locals' = Assign("alert", alert_level(locals.ratio, locals.anomaly))
  /\ pc' = "score"
  /\ UNCHANGED <<records, error, cycle>>

\* lines 153-155; AlertDisplay.show only prints
ComputeScore ==
  /\ pc = "score"
  /\ locals' = Assign("score", efficiency_score(locals.ratio))
  /\ pc' = "decide"
  /\ UNCHANGED <<records, error, cycle>>

\* lines 157-168
Decide ==
  /\ pc = "decide"
  /\ LET d == decide(locals.record, locals.ratio, locals.anomaly, locals.alert)
     IN  locals' = ("reasons" :> d[1]) @@ ("actions" :> d[2])
                     @@ ("confidence" :> d[3]) @@ locals
  /\ pc' = "done"
  /\ UNCHANGED <<records, error, cycle>>

Cycle ==
  \/ MakeRecord
  \/ DetectAnomaly
  \/ AddRecord
  \/ ComputeRatio
  \/ ComputeAlert
  \/ ComputeScore
  \/ Decide

Next ==
  \/ ReadUsage
  \/ ReadExpected
  \/ ReadSector
  \/ ReadTime
  \/ ReadSunlight
  \/ ReadTemperature
  \/ Cycle

Spec == Init /\ [][Next]_vars

---------------------------------------------------------------------------
(* A session: the evaluation cycle of main (lines 144-157) run again and   *)
(* again by a caller that keeps one EnergyHistory and supplies the six     *)
(* values of each reading already parsed.                                  *)

SessionUsages == {100, 125, 126}

SessionExpected == {0, 100}

SessionSectors == {HOME, POWER_PLANT}

InitSession ==
  /\ pc = "reading"
  /\ records = <<>>
  /\ locals = NoLocals
  /\ error = "none"
  /\ cycle = 1

\* the caller's values take the place of lines 137-142
SubmitReading ==
  /\ pc = "reading"
  /\ \E u \in SessionUsages, e \in SessionExpected, s \in SessionSectors :
       locals' = [usage |-> u, expected |-> e, sector |-> s, time |-> DAY,
                  sunlight |-> TRUE, temperature |-> 31]
  /\ pc' = "record"
  /\ UNCHANGED <<records, error, cycle>>

\* the next cycle starts with a fresh frame and the same history
NextCycle ==
  /\ pc = "done"
  /\ cycle < MaxCycles
  /\ pc' = "reading"
  /\ locals' = NoLocals
  /\ cycle' = cycle + 1
  /\ UNCHANGED <<records, error>>

NextSession ==
  \/ SubmitReading
  \/ Cycle
  \/ NextCycle

SpecSession == InitSession /\ [][NextSession]_vars

---------------------------------------------------------------------------
(* The classes called one method at a time, with arguments of the caller's *)
(* choosing.  locals is the frame of the call in progress: its arguments   *)
(* and its result.                                                         *)

ApiUsages == {80, 100, 101, 125, 126, 127}

\* a reading of which only the usage matters to the callee
UsageRecord(u) == EnergyRecord(u, 100, HOME, NIGHT, FALSE, 20)

\* ratios by hundredths, and two just below and above 1.35
ApiRatios ==
  {<<n, 100>> : n \in -MaxRatioNum..MaxRatioNum}
    \cup {<<1349999, 1000000>>, <<1350001, 1000000>>, <<7, 3>>, <<-1, 3>>}

ApiDecideRecords ==
  {EnergyRecord(100, 100, s, t, sun, temp) :
     s \in {HOME, FACTORY, POWER_PLANT, lower(FACTORY)},
     t \in {DAY, NIGHT, lower(DAY)},
     sun \in BOOLEAN,
     temp \in {30, 31, 35}}

ApiDecideRatios == {<<1, 2>>, <<115, 100>>, <<27, 20>>}

ApiAlerts == {"CRITICAL", "WARNING", "NORMAL", "critical"}

InitApi ==
  /\ pc = "idle"
  /\ records = <<>>
  /\ locals = NoLocals
  /\ error = "none"
  /\ cycle = 1

\* EnergyHistory.add(record)
CallAdd ==
  /\ pc = "idle"
  /\ Len(records) < MaxHistory
  /\ \E u \in ApiUsages :
       /\ records' = add(records, UsageRecord(u))
       /\ locals' = [record |-> UsageRecord(u)]
  /\ pc' = "add"
  /\ UNCHANGED <<error, cycle>>

\* EnergyHistory.trend_average()
CallTrendAverage ==
  /\ pc = "idle"
  /\ locals' = [result |-> trend_average(records)]
  /\ pc' = "trend_average"
  /\ UNCHANGED <<records, error, cycle>>

\* EnergyAnalytics.usage_ratio(record)
CallUsageRatio ==
  /\ pc = "idle"
  /\ \E u \in ApiUsages, e \in {-100, 0, 100} :
       LET record == EnergyRecord(u, e, HOME, NIGHT, FALSE, 20)
       IN  IF e = 0
             THEN /\ locals' = [record |-> record]
                  /\ error' = "ZeroDivisionError"
             ELSE /\ locals' = [record |-> record, ratio |-> usage_ratio(record)]
                  /\ error' = "none"
  /\ pc' = "usage_ratio"
  /\ UNCHANGED <<records, cycle>>

\* EnergyAnalytics.anomaly_detected(record, history)
CallAnomalyDetected ==
  /\ pc = "idle"
  /\ \E u \in ApiUsages :
       locals' = [record |-> UsageRecord(u),
                  anomaly |-> anomaly_detected(UsageRecord(u), records)]
  /\ pc' = "anomaly_detected"
  /\ UNCHANGED <<records, error, cycle>>

\* EnergyAnalytics.alert_level(ratio, anomaly)
CallAlertLevel ==
  /\ pc = "idle"
  /\ \E ratio \in ApiRatios, anomaly \in BOOLEAN :
       locals' = [ratio |-> ratio, anomaly |-> anomaly,
                  alert |-> alert_level(ratio, anomaly)]
  /\ pc' = "alert_level"
  /\ UNCHANGED <<records, error, cycle>>

\* EnergyAnalytics.efficiency_score(ratio)
CallEfficiencyScore ==
  /\ pc = "idle"
  /\ \E ratio \in ApiRatios :
       locals' = [ratio |-> ratio, score |-> efficiency_score(ratio)]
  /\ pc' = "efficiency_score"
  /\ UNCHANGED <<records, error, cycle>>

\* KeenAIBrain.decide(record, ratio, anomaly, alert)
CallDecide ==
  /\ pc = "idle"
  /\ \E record \in ApiDecideRecords, ratio \in ApiDecideRatios,
        anomaly \in BOOLEAN, alert \in ApiAlerts :
       LET d == decide(record, ratio, anomaly, alert)
       IN  locals' = [record |-> record, ratio |-> ratio, anomaly |-> anomaly,
                      alert |-> alert, reasons |-> d[1], actions |-> d[2],
                      confidence |-> d[3]]
  /\ pc' = "decide"
  /\ UNCHANGED <<records, error, cycle>>

\* the call returns; its frame is gone
Return ==
  /\ pc # "idle"
  /\ pc' = "idle"
  /\ locals' = NoLocals
  /\ error' = "none"
  /\ UNCHANGED <<records, cycle>>

NextApi ==
  \/ CallAdd
  \/ CallTrendAverage
  \/ CallUsageRatio
  \/ CallAnomalyDetected
  \/ CallAlertLevel
  \/ CallEfficiencyScore
  \/ CallDecide
  \/ Return

SpecApi == InitApi /\ [][NextApi]_vars

---------------------------------------------------------------------------
(* Properties                                                              *)

Elems(seq) == {seq[i] : i \in DOMAIN seq}

Bit(b) == IF b THEN 1 ELSE 0

\* C1: in every call alert_level(ratio, anomaly) the result is CRITICAL
\* exactly when ratio >= 1.35 or anomaly holds, WARNING exactly when neither
\* holds and ratio >= 1.15, and NORMAL otherwise; both thresholds are
\* inclusive, and anomaly alone gives CRITICAL at ratio 0.5.
C1_AlertLevel ==
  pc = "alert_level" =>
    LET n == locals.ratio[1]
        d == locals.ratio[2]
        anomaly == locals.anomaly
        alert == locals.alert
    IN  /\ (alert = "CRITICAL") <=> (anomaly \/ 100 * n >= 135 * d)
        /\ (alert = "WARNING") <=>
             (~anomaly /\ 100 * n < 135 * d /\ 100 * n >= 115 * d)
        /\ (alert = "NORMAL") <=> (~anomaly /\ 100 * n < 115 * d)
        /\ (locals.ratio = <<50, 100>> /\ anomaly) => alert = "CRITICAL"
        /\ (locals.ratio = <<135, 100>> /\ ~anomaly) => alert = "CRITICAL"
        /\ (locals.ratio = <<1349999, 1000000>> /\ ~anomaly) => alert = "WARNING"
        /\ (locals.ratio = <<115, 100>> /\ ~anomaly) => alert = "WARNING"
        /\ (locals.ratio = <<100, 100>> /\ ~anomaly) => alert = "NORMAL"

\* alert_level(1.35, false) has returned CRITICAL
C1_Witness ==
  /\ pc = "alert_level"
  /\ locals.ratio = <<135, 100>>
  /\ ~locals.anomaly
  /\ locals.alert = "CRITICAL"

\* C2: once the ratio of a reading with expected_avg = 0 has been asked for,
\* the cycle has ended in the error InvalidInput.
C2_InvalidInputOnZeroExpected ==
  (/\ Has("record")
   /\ locals.record.expected_avg = 0
   /\ pc \notin {"anomaly", "add", "ratio"})
    => (pc = "raised" /\ error = "InvalidInput")

\* the state of a cycle: what the history holds and what "last" was
C3_State ==
  /\ pc \in {"reading", "record", "anomaly", "add"} => Len(records) = cycle - 1
  /\ pc \in {"ratio", "alert", "score", "decide", "done", "raised"} =>
       /\ Len(records) = cycle
       /\ records[cycle] = locals.record
  /\ Has("anomaly") =>
       IF cycle = 1
         THEN ~Has("last") /\ ~locals.anomaly
         ELSE /\ Has("last")
              /\ locals.last = records[cycle - 1].usage
              /\ locals.anomaly =
                   (100 * locals.record.usage > 125 * records[cycle - 1].usage)

\* the steps of a cycle: the evaluation leaves the history alone, and the
\* history changes only by appending the evaluated reading
C3_Step ==
  /\ (Has("anomaly")' /\ ~Has("anomaly")) =>
       (records' = records /\ Len(records) = cycle - 1)
  /\ records' # records =>
       /\ Has("anomaly")
       /\ records' = Append(records, locals.record)
       /\ cycle' = cycle
  /\ cycle' # cycle => Len(records) = cycle

\* C3: in a session of cycles over one history, the k-th reading is
\* evaluated against the history of the first k-1 readings: "last" is the
\* usage of reading k-1 (there is none for the first reading), and the
\* reading is appended after its evaluation and before the next cycle.
C3_EvaluateBeforeAppend == [](C3_State) /\ [][C3_Step]_vars

\* second cycle done: 126 after 100 was a spike, judged against 100
C3_Witness ==
  /\ pc = "done"
  /\ cycle = 2
  /\ records[1].usage = 100
  /\ locals.record.usage = 126
  /\ locals.last = 100
  /\ locals.anomaly

\* C4: anomaly_detected(record, history) is false on an empty history and
\* otherwise true exactly when record.usage > 1.25 * the usage of the last
\* record, whatever the earlier records are; it leaves the history as it is.
C4_AnomalyDetected ==
  /\ [](pc = "anomaly_detected" =>
          LET usage == locals.record.usage
          IN  /\ records = <<>> => ~locals.anomaly
              /\ records # <<>> =>
                   (locals.anomaly <=>
                      100 * usage > 125 * records[Len(records)].usage)
              /\ (records # <<>> /\ records[Len(records)].usage = 100) =>
                   /\ usage = 126 => locals.anomaly
                   /\ usage = 125 => ~locals.anomaly)
  /\ [][pc' = "anomaly_detected" => records' = records]_vars

\* usage 126 against the history [127, 100] is a spike
C4_Witness ==
  /\ pc = "anomaly_detected"
  /\ Len(records) = 2
  /\ records[1].usage = 127
  /\ records[2].usage = 100
  /\ locals.record.usage = 126
  /\ locals.anomaly

\* C5: the actions of decide are fixed by alert, sunlight and whether the
\* sector is Factory or Power Plant: CRITICAL gives reduce-load, then
\* daylight-mirroring if sunlight, then waste-recovery for those sectors,
\* then geothermal last; WARNING gives optimize-schedule, then
\* daylight-lighting if sunlight; any other alert gives the one LOW action.
C5_Actions ==
  pc = "decide" =>
    LET actions == locals.actions
        alert == locals.alert
        sun == locals.record.sunlight
        plant == locals.record.sector \in {FACTORY, POWER_PLANT}
    IN  /\ (alert = "CRITICAL" /\ sun /\ plant) =>
             actions = <<ReduceLoad, DaylightMirroring, WasteRecovery,
                         GeothermalShift>>
        /\ (alert = "CRITICAL" /\ sun /\ ~plant) =>
             actions = <<ReduceLoad, DaylightMirroring, GeothermalShift>>
        /\ (alert = "CRITICAL" /\ ~sun /\ plant) =>
             actions = <<ReduceLoad, WasteRecovery, GeothermalShift>>
        /\ (alert = "CRITICAL" /\ ~sun /\ ~plant) =>
             actions = <<ReduceLoad, GeothermalShift>>
        /\ (alert = "WARNING" /\ sun) =>
             actions = <<OptimizeSchedule, DaylightLighting>>
        /\ (alert = "WARNING" /\ ~sun) => actions = <<OptimizeSchedule>>
        /\ alert \notin {"CRITICAL", "WARNING"} => actions = <<NoAction>>
        /\ actions # <<>>
        /\ \A i \in DOMAIN actions :
             actions[i][1] \in
               (IF alert = "CRITICAL" THEN {"IMMEDIATE", "HIGH"}
                ELSE IF alert = "WARNING" THEN {"MEDIUM"} ELSE {"LOW"})

\* CRITICAL, sunlight, Power Plant: the four actions
C5_Witness ==
  /\ pc = "decide"
  /\ locals.alert = "CRITICAL"
  /\ locals.record.sunlight
  /\ locals.record.sector = POWER_PLANT
  /\ Len(locals.actions) = 4
  /\ locals.actions[4] = GeothermalShift

\* C6: the confidence of decide is min(100, 30 + 15 [temperature > 30]
\* + 20 [sunlight and Day] + 20 [Factory] + 20 [Power Plant]), an integer
\* in 0..100 whatever ratio, anomaly and alert are.
C6_Confidence ==
  pc = "decide" =>
    LET r == locals.record
        sum == 30 + 15 * Bit(r.temperature > 30)
                  + 20 * Bit(r.sunlight /\ r.time = DAY)
                  + 20 * Bit(r.sector = FACTORY)
                  + 20 * Bit(r.sector = POWER_PLANT)
    IN  /\ locals.confidence = (IF sum > 100 THEN 100 ELSE sum)
        /\ locals.confidence \in 0..100
        /\ (r.temperature = 35 /\ r.sunlight /\ r.time = DAY
              /\ r.sector = FACTORY) => locals.confidence = 85
        /\ (r.temperature <= 30 /\ ~(r.sunlight /\ r.time = DAY)
              /\ r.sector \notin {FACTORY, POWER_PLANT}) =>
             locals.confidence = 30

\* no rule fired: the confidence is the flat 30
C6_Witness ==
  /\ pc = "decide"
  /\ locals.record.temperature = 30
  /\ ~locals.record.sunlight
  /\ locals.record.sector = HOME
  /\ locals.confidence = 30

\* the items of full whose flag in present is true, in the order of full
RECURSIVE Selected(_, _)
Selected(full, present) ==
  IF full = <<>> THEN <<>>
  ELSE (IF Head(present) THEN <<Head(full)>> ELSE <<>>)
         \o Selected(Tail(full), Tail(present))

\* C7: the reasons of decide are, in this order, the ratio line (always),
\* the spike line iff anomaly, the temperature line iff temperature > 30,
\* the sunlight line iff sunlight and time = "Day", the Factory line iff
\* sector = "Factory", the Power Plant line iff sector = "Power Plant"; any
\* other sector or time adds nothing.
C7_Reasons ==
  pc = "decide" =>
    LET r == locals.record
        reasons == locals.reasons
        full == <<reasons[1], SpikeLine, TemperatureLine, SunlightLine,
                  FactoryLine, PowerPlantLine>>
        present == <<TRUE, locals.anomaly, r.temperature > 30,
                     r.sunlight /\ r.time = DAY, r.sector = FACTORY,
                     r.sector = POWER_PLANT>>
    IN  /\ reasons # <<>>
        /\ reasons[1].text = "Usage is {ratio:.2f}x expected level"
        /\ reasons = Selected(full, present)
        /\ (r.temperature = 35 /\ r.sunlight /\ r.time = DAY
              /\ r.sector = FACTORY) =>
             Tail(reasons) = (IF locals.anomaly THEN <<SpikeLine>> ELSE <<>>)
                 \o <<TemperatureLine, SunlightLine, FactoryLine>>
        /\ (r.sector \notin {FACTORY, POWER_PLANT} /\ r.time # DAY) =>
             Elems(Tail(reasons)) \subseteq {SpikeLine, TemperatureLine}

\* temperature 35, sunlight, Day, Factory and a spike: five lines
C7_Witness ==
  /\ pc = "decide"
  /\ locals.anomaly
  /\ locals.record.temperature = 35
  /\ locals.record.sunlight
  /\ locals.record.time = DAY
  /\ locals.record.sector = FACTORY
  /\ Len(locals.reasons) = 5

\* C8: efficiency_score(ratio), in tenths, lies in 0..1000, is within half
\* a tenth of 100 - |ratio - 1| * 75 clamped to [0, 100], is 1000 at ratio
\* 1, is 0 when |ratio - 1| >= 4/3, and is the same at 1 + x and 1 - x.
C8_EfficiencyScore ==
  pc = "efficiency_score" =>
    LET n == locals.ratio[1]
        d == locals.ratio[2]
        score == locals.score
        raw == 1000 * d - 750 * Abs(n - d)
        exact == IF raw < 0 THEN 0 ELSE IF raw > 1000 * d THEN 1000 * d ELSE raw
    IN  /\ score \in 0..1000
        /\ 2 * Abs(score * d - exact) <= d
        /\ n = d => score = 1000
        /\ 3 * Abs(n - d) >= 4 * d => score = 0
        /\ score = efficiency_score(<<2 * d - n, d>>)
        /\ n >= d => efficiency_score(<<n + 1, d>>) <= score

\* a negative ratio scores 0
C8_Witness ==
  /\ pc = "efficiency_score"
  /\ locals.ratio[1] < 0
  /\ 3 * Abs(locals.ratio[1] - locals.ratio[2]) >= 4 * locals.ratio[2]
  /\ locals.score = 0

\* C9: in main the sector is strip().capitalize() of what was typed, so it
\* has no upper-case letter after its first character and is never
\* "Power Plant"; the grid-balancing reason and its +20 never appear, and
\* the waste-recovery action appears exactly for CRITICAL with "Factory".
C9_SectorNeverPowerPlant ==
  /\ Has("sector") =>
       LET sector == locals.sector
       IN  /\ sector = capitalize(strip(locals.sector_typed))
           /\ sector # POWER_PLANT
           /\ \A i \in DOMAIN sector :
                IF i = 1 THEN ~IsLower(sector[i]) ELSE ~IsUpper(sector[i])
  /\ Has("record") => locals.record.sector = locals.sector
  /\ Has("reasons") =>
       /\ PowerPlantLine \notin Elems(locals.reasons)
       /\ locals.confidence =
            30 + 15 * Bit(locals.record.temperature > 30)
               + 20 * Bit(locals.record.sunlight /\ locals.record.time = DAY)
               + 20 * Bit(locals.record.sector = FACTORY)
       /\ WasteRecovery \in Elems(locals.actions) <=>
            (locals.alert = "CRITICAL" /\ locals.sector = FACTORY)

\* "Power Plant" typed, alert CRITICAL, and no waste-recovery action
C9_Witness ==
  /\ pc = "done"
  /\ locals.sector_typed = POWER_PLANT
  /\ locals.alert = "CRITICAL"
  /\ WasteRecovery \notin Elems(locals.actions)
  /\ PowerPlantLine \notin Elems(locals.reasons)

\* C10: main runs one cycle on a fresh history: the history is empty when
\* anomaly_detected is called, anomaly is false, there is no spike line,
\* the alert is CRITICAL iff ratio >= 1.35, and at the end the history holds
\* exactly the record read, for which trend_average is None.
C10_SingleCycle ==
  /\ cycle = 1
  /\ pc = "anomaly" => records = <<>>
  /\ Has("anomaly") => (~locals.anomaly /\ ~Has("last"))
  /\ Has("alert") =>
       (locals.alert = "CRITICAL" <=>
          100 * locals.ratio[1] >= 135 * locals.ratio[2])
  /\ Has("reasons") => SpikeLine \notin Elems(locals.reasons)
  /\ pc = "done" =>
       /\ records = <<locals.record>>
       /\ trend_average(records) = None

\* main is done with a CRITICAL alert that came from the ratio alone
C10_Witness ==
  /\ pc = "done"
  /\ Len(records) = 1
  /\ locals.alert = "CRITICAL"
  /\ ~locals.anomaly
  /\ locals.record.usage > 0

====
